---- MODULE Spec2Model ----
(***************************************************************************)
(* GameChanger: the MCP settings store (app/lib/stores/mcp.ts), the        *)
(* GitHub CLI exec gateway (app/routes/api.github-cli-exec.ts) and the     *)
(* GitHub CLI status route (unnamed/part_000).                             *)
(*                                                                         *)
(* The store is a zustand store whose three operations are async           *)
(* functions.  JavaScript runs each synchronous segment of a function to   *)
(* completion, so one action of the model is one segment: from the call    *)
(* (or from the resumption of an await) up to the next await or return.    *)
(***************************************************************************)
EXTENDS Integers, Sequences, FiniteSets, TLC

VARIABLES
    isBrowser,          \* mcp.ts:5    typeof window !== 'undefined'
    persisted,          \* localStorage item MCP_SETTINGS_KEY
    isInitialized,      \* mcp.ts:82
    settings,           \* mcp.ts:83
    serverTools,        \* mcp.ts:84
    error,              \* mcp.ts:85
    isUpdatingConfig,   \* mcp.ts:86
    upd,                \* updateSettings calls: where each one stands
    ini,                \* initialize calls: where each one stands
    chk,                \* checkServersAvailabilities calls
    loads,              \* how many times initialize entered its load path
    ret,                \* the call that settled in the last step, if any
    gwPc,               \* exec route: where the handling of the request stands
    gwReq,              \* exec route: the request being handled
    gwSpawned,          \* exec route: the processes spawned for this request
    gwResult,           \* exec route: the result of the primary invocation
    gwResponse,         \* exec route: the response returned
    stPc,               \* status route: where the handling of the request stands
    stAction,           \* status route: the action parameter of the request
    stSpawned,          \* status route: the processes spawned for this request
    stResults,          \* status route: what each of them returned
    stStatus,           \* status route: the status returned
    rtPc,               \* round trip: new, written or read
    rtSettings,         \* round trip: the settings object that is saved
    rtRecord,           \* round trip: the item in localStorage
    rtLoaded            \* round trip: the object JSON.parse returned

storeVars == <<isInitialized, settings, serverTools, error, isUpdatingConfig>>
clientVars == <<isBrowser, persisted, isInitialized, settings, serverTools, error,
                isUpdatingConfig, upd, ini, chk, loads, ret>>
gwVars == <<gwPc, gwReq, gwSpawned, gwResult, gwResponse>>
stVars == <<stPc, stAction, stSpawned, stResults, stStatus>>
rtVars == <<rtPc, rtSettings, rtRecord, rtLoaded>>
vars == <<clientVars, gwVars, stVars, rtVars>>

----------------------------------------------------------------------------
(* Bounds of the model *)

NumUpdateCalls == 2     \* updateSettings calls that may overlap
NumInitCalls == 1       \* initialize calls that may overlap
NumCheckCalls == 1      \* checkServersAvailabilities calls that may overlap
MaxLoads == 3           \* cap of the load-path counter
MaxStepsInput == 5      \* largest maxLLMSteps of the round-trip inputs

UpdCalls == 1..NumUpdateCalls
IniCalls == 1..NumInitCalls
ChkCalls == 1..NumCheckCalls

----------------------------------------------------------------------------
(* Values *)

DefaultMaxLLMSteps == 5

\* A JavaScript value in the place of a number: a finite number, NaN, an
\* infinity, null, or undefined (the member is missing).
Num(n) == [kind |-> "number", val |-> n]
NaN == [kind |-> "NaN", val |-> 0]
Infinity == [kind |-> "Infinity", val |-> 0]
Null == [kind |-> "null", val |-> 0]
Missing == [kind |-> "undefined", val |-> 0]

\* An MCPConfig is represented by the set of its server names.
defaultSettings == [mcpConfig |-> {}, maxLLMSteps |-> Num(DefaultMaxLLMSteps)]

settingsA == [mcpConfig |-> {"github"}, maxLLMSteps |-> Num(DefaultMaxLLMSteps)]
settingsB == [mcpConfig |-> {"github-cli"}, maxLLMSteps |-> Num(3)]

\* The arguments updateSettings is called with.
SettingsInputs == {defaultSettings, settingsA, settingsB}

\* MCPServerTools: one entry per server of the configuration.
ToolStatus == {"available", "unavailable"}
DiscoveryResults(config) == [config -> ToolStatus]
NoTools == [n \in {} |-> "available"]
AllServerTools == UNION {DiscoveryResults(s.mcpConfig) : s \in SettingsInputs}

\* localStorage.getItem gives null or a string; a string is a JSON text of a
\* settings object, the empty string, or something JSON.parse rejects.
NoItem == [tag |-> "null", mcpConfig |-> {}, maxLLMSteps |-> Missing]
EmptyText == [tag |-> "empty", mcpConfig |-> {}, maxLLMSteps |-> Missing]
GarbageText == [tag |-> "garbage", mcpConfig |-> {}, maxLLMSteps |-> Missing]

\* The JSON text of a value in the place of a number: the digits of a finite
\* number, the literal null for null, NaN and the infinities, and no member
\* at all for undefined.
NumberText(x) ==
    IF x.kind \in {"NaN", "Infinity", "null"} THEN Null ELSE x

\* JSON.stringify of a settings object: the members of mcpServers by name,
\* and maxLLMSteps.
Stringify(s) ==
    [tag |-> "json", mcpConfig |-> s.mcpConfig,
     maxLLMSteps |-> NumberText(s.maxLLMSteps)]

\* Variant: JSON.parse reads every number as the default.
ParseStepsDefaulted(text) ==
    [mcpConfig |-> text.mcpConfig, maxLLMSteps |-> Num(DefaultMaxLLMSteps)]
\* JSON.parse: whether it returns, and what.  The digits give the number,
\* the literal null gives null, a member that is not there is undefined.
Parses(text) == text.tag = "json"
Parse(text) == [mcpConfig |-> text.mcpConfig, maxLLMSteps |-> text.maxLLMSteps]

\* if (savedConfig): null and '' are falsy.
Truthy(item) == item.tag \notin {"null", "empty"}

\* The error field: null, or the message initialize builds from what it caught.
NoError == <<>>
ParseErrorText(cause) == <<"Error parsing saved mcp config: ", cause>>

\* What a fetch can come to: a response with ok, a response without, a rejection.
FetchOutcomes == {"ok", "notok", "rejected"}
Failed(resp) == resp \in {"notok", "rejected"}
CauseOf(resp) == IF resp = "notok" THEN "Server responded with" ELSE "fetch failed"

\* The bodies a request for `config` can be answered with: response.json() is
\* read only from a response with ok.
Bodies(resp, config) == IF resp = "ok" THEN DiscoveryResults(config) ELSE {NoTools}
AnyBodies(resp) == IF resp = "ok" THEN AllServerTools ELSE {NoTools}

NoRet == [op |-> "none", outcome |-> "none", path |-> "none", resp |-> "none",
          arg |-> defaultSettings, tools |-> NoTools, sawDrop |-> FALSE]

IdleCall == [pc |-> "idle", arg |-> defaultSettings, sawDrop |-> FALSE]

\* Calls are anonymous: a new call takes the first free place.
FreeCall(calls, c) ==
    /\ calls[c].pc = "idle"
    /\ \A d \in DOMAIN calls : d < c => calls[d].pc # "idle"
\* A check records the configuration the store held when it was issued.
IdleCheck == [pc |-> "idle", config |-> {}]
FreeCheck(calls, c) ==
    /\ calls[c].pc = "idle"
    /\ \A d \in DOMAIN calls : d < c => calls[d].pc # "idle"

----------------------------------------------------------------------------
StoreInit ==
    /\ isBrowser \in BOOLEAN
    /\ persisted \in IF isBrowser
                     THEN {NoItem, EmptyText, GarbageText, Stringify(settingsA)}
                     ELSE {NoItem}
    /\ isInitialized = FALSE
    /\ settings = defaultSettings
    /\ serverTools = NoTools
    /\ error = NoError
    /\ isUpdatingConfig = FALSE
    /\ upd = [c \in UpdCalls |-> IdleCall]
    /\ ini = [c \in IniCalls |-> IdleCall]
    /\ chk = [c \in ChkCalls |-> IdleCheck]
    /\ loads = 0
    /\ ret = NoRet

----------------------------------------------------------------------------
(* updateSettings, mcp.ts:113-133 *)

\* Variant: the guard is missing.
UpdateGuardMissing == FALSE
\* The single-flight guard.
UpdateGuard == isUpdatingConfig

\* Variant: the guard sits inside the try, so that finally runs on the early return.
FlagClearedOnEarlyReturn == FALSE
\* The flag as the early return leaves it: the return is outside the try.
FlagOnEarlyReturn == isUpdatingConfig

\* Mark the in-flight calls as having seen a call dropped.
NoteDrop(calls) ==
    [c \in DOMAIN calls |->
        IF calls[c].pc = "awaiting" THEN [calls[c] EXCEPT !.sawDrop = TRUE]
        ELSE calls[c]]

\* Variant: the new settings are adopted before the request is awaited.
SettingsAdoptedAnyway(resp, newSettings) == newSettings
\* Variant: the record is never written.
PersistedNeverWritten(resp, newSettings) == persisted
\* Variant: the flag is cleared at the end of the try block, not in a finally.
FlagClearedOnSuccessOnly(resp) == resp # "ok"

\* The store after the try block, by what the discovery request came to.
SettingsAfterUpdate(resp, newSettings) ==
    IF resp = "ok" THEN newSettings ELSE settings
ToolsAfterUpdate(resp, tools) ==
    IF resp = "ok" THEN tools ELSE serverTools
PersistedAfterUpdate(resp, newSettings) ==
    IF resp = "ok" /\ isBrowser THEN Stringify(newSettings) ELSE persisted
\* finally { set(() => ({ isUpdatingConfig: false })) }
FlagAfterUpdate(resp) == FALSE
UpdateOutcome(resp) == IF resp = "ok" THEN "resolved" ELSE "rejected"

\* A call that finds the flag set returns at once.
UpdateSettingsDropped(c, newSettings) ==
    /\ FreeCall(upd, c)
    /\ UpdateGuard
    /\ isUpdatingConfig' = FlagOnEarlyReturn
    /\ upd' = NoteDrop(upd)
    /\ ret' = [NoRet EXCEPT !.op = "updateSettings", !.outcome = "dropped",
                            !.arg = newSettings]
    /\ UNCHANGED <<isBrowser, persisted, isInitialized, settings, serverTools,
                   error, ini, chk, loads>>

\* A call that passes the guard sets the flag and issues the discovery request.
UpdateSettingsStart(c, newSettings) ==
    /\ FreeCall(upd, c)
    /\ ~UpdateGuard
    /\ isUpdatingConfig' = TRUE
    /\ upd' = [upd EXCEPT ![c] = [pc |-> "awaiting", arg |-> newSettings,
                                  sawDrop |-> FALSE]]
    /\ ret' = NoRet
    /\ UNCHANGED <<isBrowser, persisted, isInitialized, settings, serverTools,
                   error, ini, chk, loads>>

\* The discovery request settles: persist and adopt, or rethrow; then finally.
UpdateSettingsFinish(c, resp, tools) ==
    /\ upd[c].pc = "awaiting"
    /\ persisted' = PersistedAfterUpdate(resp, upd[c].arg)
    /\ settings' = SettingsAfterUpdate(resp, upd[c].arg)
    /\ serverTools' = ToolsAfterUpdate(resp, tools)
    /\ isUpdatingConfig' = FlagAfterUpdate(resp)
    /\ upd' = [upd EXCEPT ![c] = IdleCall]
    /\ ret' = [NoRet EXCEPT !.op = "updateSettings",
                            !.outcome = UpdateOutcome(resp),
                            !.resp = resp,
                            !.arg = upd[c].arg,
                            !.tools = IF resp = "ok" THEN tools ELSE NoTools,
                            !.sawDrop = upd[c].sawDrop]
    /\ UNCHANGED <<isBrowser, isInitialized, error, ini, chk, loads>>

----------------------------------------------------------------------------
(* initialize, mcp.ts:87-112 *)

\* Variant: the guard is missing.
InitGuardMissing == FALSE
InitGuard == isInitialized

Bump(n) == IF n < MaxLoads THEN n + 1 ELSE n

\* Variant: the flag is set at the end of the try block, not after the catch.
InitializedUnlessCaught(path) == IF path = "caught" THEN isInitialized ELSE TRUE
\* set(() => ({ isInitialized: true })) closes every path that passed the guard.
InitializedAtEnd(path) == TRUE

\* Variant: the catch block only logs.
ErrorOnlyLogged(cause) == error
\* What the catch block records.
ErrorAfterCatch(cause) == ParseErrorText(cause)

\* The store after the try/catch of the load path, by what discovery came to.
SettingsAfterLoad(resp, saved) == IF resp = "ok" THEN saved ELSE settings
ToolsAfterLoad(resp, tools) == IF resp = "ok" THEN tools ELSE serverTools
ErrorAfterLoad(resp) == IF resp = "ok" THEN error ELSE ErrorAfterCatch(CauseOf(resp))

InitReturn(path, resp, arg, tools) ==
    [NoRet EXCEPT !.op = "initialize", !.outcome = "resolved", !.path = path,
                  !.resp = resp, !.arg = arg, !.tools = tools]

\* A call on an initialized store returns at once.
InitializeNoop(c) ==
    /\ FreeCall(ini, c)
    /\ InitGuard
    /\ ret' = InitReturn("noop", "none", defaultSettings, NoTools)
    /\ UNCHANGED <<isBrowser, persisted, isInitialized, settings, serverTools,
                   error, isUpdatingConfig, upd, ini, chk, loads>>

\* Outside a browser there is no localStorage: only the flag is set.
InitializeNoBrowser(c) ==
    /\ FreeCall(ini, c)
    /\ ~InitGuard
    /\ ~isBrowser
    /\ isInitialized' = InitializedAtEnd("nobrowser")
    /\ ret' = InitReturn("nobrowser", "none", defaultSettings, NoTools)
    /\ UNCHANGED <<isBrowser, persisted, settings, serverTools, error,
                   isUpdatingConfig, upd, ini, chk, loads>>

\* No saved item (null or ''): the defaults are written.
InitializeAbsent(c) ==
    /\ FreeCall(ini, c)
    /\ ~InitGuard
    /\ isBrowser
    /\ ~Truthy(persisted)
    /\ loads' = Bump(loads)
    /\ persisted' = Stringify(defaultSettings)
    /\ isInitialized' = InitializedAtEnd("absent")
    /\ ret' = InitReturn("absent", "none", defaultSettings, NoTools)
    /\ UNCHANGED <<isBrowser, settings, serverTools, error, isUpdatingConfig,
                   upd, ini, chk>>

\* JSON.parse throws: the catch block records the error.
InitializeUnparseable(c) ==
    /\ FreeCall(ini, c)
    /\ ~InitGuard
    /\ isBrowser
    /\ Truthy(persisted)
    /\ ~Parses(persisted)
    /\ loads' = Bump(loads)
    /\ error' = ErrorAfterCatch("SyntaxError")
    /\ isInitialized' = InitializedAtEnd("caught")
    /\ ret' = InitReturn("unparseable", "none", defaultSettings, NoTools)
    /\ UNCHANGED <<isBrowser, persisted, settings, serverTools,
                   isUpdatingConfig, upd, ini, chk>>

\* JSON.parse returns: the discovery request for the saved config is issued.
InitializeLoad(c) ==
    /\ FreeCall(ini, c)
    /\ ~InitGuard
    /\ isBrowser
    /\ Truthy(persisted)
    /\ Parses(persisted)
    /\ loads' = Bump(loads)
    /\ ini' = [ini EXCEPT ![c] = [pc |-> "awaiting", arg |-> Parse(persisted),
                                  sawDrop |-> FALSE]]
    /\ ret' = NoRet
    /\ UNCHANGED <<isBrowser, persisted, isInitialized, settings, serverTools,
                   error, isUpdatingConfig, upd, chk>>

\* The discovery request settles: adopt, or fall into the catch block.
InitializeFinish(c, resp, tools) ==
    /\ ini[c].pc = "awaiting"
    /\ settings' = SettingsAfterLoad(resp, ini[c].arg)
    /\ serverTools' = ToolsAfterLoad(resp, tools)
    /\ error' = ErrorAfterLoad(resp)
    /\ isInitialized' = InitializedAtEnd(IF resp = "ok" THEN "loaded" ELSE "caught")
    /\ ini' = [ini EXCEPT ![c] = IdleCall]
    /\ ret' = InitReturn("loaded", resp, ini[c].arg,
                         IF resp = "ok" THEN tools ELSE NoTools)
    /\ UNCHANGED <<isBrowser, persisted, isUpdatingConfig, upd, chk, loads>>

----------------------------------------------------------------------------
(* checkServersAvailabilities, mcp.ts:134-146 *)

CheckStart(c) ==
    /\ FreeCheck(chk, c)
    /\ chk' = [chk EXCEPT ![c] = [pc |-> "awaiting", config |-> settings.mcpConfig]]
    /\ ret' = NoRet
    /\ UNCHANGED <<isBrowser, persisted, isInitialized, settings, serverTools,
                   error, isUpdatingConfig, upd, ini, loads>>

\* Variant: the tools are reset before the response is examined.
ToolsResetOnFailure(resp, tools) == IF resp = "ok" THEN tools ELSE NoTools
\* set(() => ({ serverTools })) is reached only past the response.ok test.
ToolsAfterCheck(resp, tools) == IF resp = "ok" THEN tools ELSE serverTools

CheckFinish(c, resp, tools) ==
    /\ chk[c].pc = "awaiting"
    /\ serverTools' = ToolsAfterCheck(resp, tools)
    /\ chk' = [chk EXCEPT ![c] = IdleCheck]
    /\ ret' = [NoRet EXCEPT !.op = "checkServersAvailabilities",
                            !.outcome = IF resp = "ok" THEN "resolved" ELSE "rejected",
                            !.resp = resp,
                            !.tools = IF resp = "ok" THEN tools ELSE NoTools]
    /\ UNCHANGED <<isBrowser, persisted, isInitialized, settings, error,
                   isUpdatingConfig, upd, ini, loads>>

----------------------------------------------------------------------------
(* The persisted record: what updateSettings writes (mcp.ts:124) and what   *)
(* initialize reads back (mcp.ts:93-97).                                    *)

ServerNames == {"github", "github-cli"}

\* The values a caller can pass as maxLLMSteps.
StepsInputs ==
    {Num(n) : n \in -1..MaxStepsInput} \cup {NaN, Infinity, Null, Missing}

\* The settings objects a caller can pass to updateSettings.
RoundTripInputs == [mcpConfig : SUBSET ServerNames, maxLLMSteps : StepsInputs]

\* A settings object whose maxLLMSteps is a positive integer.
WellFormedSettings(s) ==
    s.maxLLMSteps.kind = "number" /\ s.maxLLMSteps.val >= 1

RtIdle ==
    /\ rtPc = "idle"
    /\ rtSettings = defaultSettings
    /\ rtRecord = NoItem
    /\ rtLoaded = defaultSettings

RtInit ==
    /\ rtPc = "new"
    /\ rtSettings \in RoundTripInputs
    /\ rtRecord = NoItem
    /\ rtLoaded = defaultSettings

\* localStorage.setItem(MCP_SETTINGS_KEY, JSON.stringify(newSettings))
RtWrite ==
    /\ rtPc = "new"
    /\ rtRecord' = Stringify(rtSettings)
    /\ rtPc' = "written"
    /\ UNCHANGED <<rtSettings, rtLoaded>>

\* const settings = JSON.parse(localStorage.getItem(MCP_SETTINGS_KEY))
RtRead ==
    /\ rtPc = "written"
    /\ Truthy(rtRecord) /\ Parses(rtRecord)
    /\ rtLoaded' = Parse(rtRecord)
    /\ rtPc' = "read"
    /\ UNCHANGED <<rtSettings, rtRecord>>

----------------------------------------------------------------------------
(* The exec route, api.github-cli-exec.ts.  A command is the sequence of its  *)
(* characters; an argument list and an output are sequences of words.          *)

CmdVersion == <<"v", "e", "r", "s", "i", "o", "n">>
CmdVersionUpper == <<"V", "e", "r", "s", "i", "o", "n">>
CmdAuth == <<"a", "u", "t", "h">>
CmdAuthStatus == <<"a", "u", "t", "h", " ", "s", "t", "a", "t", "u", "s">>
CmdApi == <<"a", "p", "i">>
CmdRepo == <<"r", "e", "p", "o">>
CmdPrune == <<"p", "r", "u", "n", "e">>
CmdRm == <<"r", "m">>
CmdStatus == <<"s", "t", "a", "t", "u", "s">>
CmdEmpty == <<>>

\* const allowedCommands = [...]
allowedCommands ==
    { <<"v", "e", "r", "s", "i", "o", "n">>,
      <<"a", "u", "t", "h">>,
      <<"r", "e", "p", "o">>,
      <<"i", "s", "s", "u", "e">>,
      <<"p", "r">>,
      <<"w", "o", "r", "k", "f", "l", "o", "w">>,
      <<"a", "p", "i">>,
      <<"g", "i", "s", "t">>,
      <<"s", "e", "c", "r", "e", "t">>,
      <<"s", "s", "h", "-", "k", "e", "y">> }

UpperLetters == <<"A", "B", "C", "D", "E", "F", "G", "H", "I", "J", "K", "L", "M", "N", "O", "P", "Q", "R", "S", "T", "U", "V", "W", "X", "Y", "Z">>
LowerLetters == <<"a", "b", "c", "d", "e", "f", "g", "h", "i", "j", "k", "l", "m", "n", "o", "p", "q", "r", "s", "t", "u", "v", "w", "x", "y", "z">>

\* String.prototype.toLowerCase
LowerChar(ch) ==
    IF \E i \in 1..Len(UpperLetters) : UpperLetters[i] = ch
    THEN LowerLetters[CHOOSE i \in 1..Len(UpperLetters) : UpperLetters[i] = ch]
    ELSE ch
ToLowerCase(s) == [i \in 1..Len(s) |-> LowerChar(s[i])]

\* String.prototype.startsWith
StartsWith(s, prefix) ==
    /\ Len(prefix) <= Len(s)
    /\ SubSeq(s, 1, Len(prefix)) = prefix

\* Variant: the validation is missing.
IsAllowedAlways(command) == TRUE
\* allowedCommands.some((cmd) => baseCommand.startsWith(cmd))
IsAllowed(command) ==
    \E cmd \in allowedCommands : StartsWith(ToLowerCase(command), cmd)

\* GITHUB_CLI_CONFIG[getPlatform()]: getPlatform returns 'windows'.
ConfigPath == "C:\\users\\neal7\\devtools\\github cli\\bin\\gh.exe"
ConfigCwd == "C:\\users\\neal7\\devtools\\github cli"

\* The requests the route is sent.
Methods == {"POST", "GET"}
BodyKinds == {"json", "unreadable"}
Commands == {CmdVersion, CmdVersionUpper, CmdAuth, CmdAuthStatus, CmdApi, CmdRepo,
             CmdPrune, CmdRm, CmdStatus, CmdEmpty}
ArgLists == {<<>>, <<"status">>, <<"user">>}
EnvOverrides == {<<>>, <<"GH_TOKEN">>}
CwdOverrides == {"", "/work"}
Requests ==
    [method : Methods, body : BodyKinds, command : Commands, args : ArgLists,
     env : EnvOverrides, cwd : CwdOverrides]

\* What the external program prints.
OutVersion == <<"gh", "version", "2.40.0", "(2023-01-01)">>
OutPlain == <<"Logged", "in">>
OutUser == <<"{", "login", "alice", "name", "Alice A", "}">>
OutUserNoName == <<"{", "login", "bob", "}">>
OutBareVersion == <<"gh", "version">>
OutEmptyObject == <<"{", "}">>
OutNone == <<>>
Outputs == {OutVersion, OutPlain, OutUser, OutUserNoName, OutEmptyObject,
            OutBareVersion, OutNone}

NoVersion == "(no version)"
NoUser == [login |-> "(no user)", name |-> "(no user)"]
NoErrorText == "(no error)"
Undefined == "(undefined)"

\* `${command} ${args.join(' ')}`
Echo(command, args) == [verb |-> command, args |-> args]

\* The command line, environment overrides and working directory of one
\* execSync call.
\* fullCommand = `"${config.path}" ${command} ${args.join(' ')}`
\* fullEnv = { ...process.env, ...env }; cwd: cwd || config.cwd
Invocation(command, args, env, cwd) ==
    [exe |-> ConfigPath, verb |-> command, args |-> args, env |-> env,
     cwd |-> IF cwd # "" THEN cwd ELSE ConfigCwd]

\* The words of the command line execSync is given.
CommandLine(inv) == <<inv.exe, inv.verb>> \o inv.args

\* The result executeGitHubCLICommand returns, by how execSync ended.
RunResult(command, args, success, out) ==
    [success |-> success,
     command |-> Echo(command, args),
     output |-> out,
     error |-> IF success THEN NoErrorText ELSE "Command failed",
     version |-> NoVersion,
     user |-> NoUser]

NoResult == [RunResult(<<>>, <<>>, FALSE, <<>>) EXCEPT !.error = NoErrorText]

Response(status, body) == [status |-> status, body |-> body]
NoResponse == Response(0, NoResult)

\* json({ success: false, error: 'Method not allowed' }, { status: 405 })
MethodNotAllowed ==
    Response(405, [NoResult EXCEPT !.error = "Method not allowed"])

\* Variant: the catch block answers with a server error status.
CaughtAsServerError ==
    Response(500, [NoResult EXCEPT !.error = "Unexpected error"])
\* The catch block of the action: json({ success: false, ... }), status 200.
CaughtResponse ==
    Response(200, [NoResult EXCEPT !.error = "Unexpected error"])

\* The rejection of a command that is not allowed.
Rejection(command, args) ==
    Response(200, [NoResult EXCEPT !.command = Echo(command, args),
                                   !.error = "is not allowed for security reasons"])

\* result.output.match(/gh version (\S+)/)
VersionMatches(out) ==
    {i \in 1..Len(out) : i + 2 <= Len(out) /\ out[i] = "gh" /\ out[i + 1] = "version"}
\* Variant: the version is the word after `gh`.
VersionOffByOne(out) ==
    IF VersionMatches(out) = {} THEN NoVersion
    ELSE out[(CHOOSE i \in VersionMatches(out) :
                 \A k \in VersionMatches(out) : i <= k) + 1]
VersionOf(out) ==
    IF VersionMatches(out) = {} THEN NoVersion
    ELSE out[(CHOOSE i \in VersionMatches(out) :
                 \A k \in VersionMatches(out) : i <= k) + 2]

\* JSON.parse of the output of `api user`: an object's members, or a throw.
JsonParses(out) == Len(out) >= 2 /\ out[1] = "{" /\ out[Len(out)] = "}" /\ Len(out) % 2 = 0
Member(out, key) ==
    IF \E i \in 1..Len(out) : i % 2 = 0 /\ i < Len(out) /\ out[i] = key
    THEN out[(CHOOSE i \in 1..Len(out) : i % 2 = 0 /\ i < Len(out) /\ out[i] = key) + 1]
    ELSE Undefined
\* { login: userData.login, name: userData.name || userData.login }
UserOf(out) ==
    [login |-> Member(out, "login"),
     name |-> IF Member(out, "name") \notin {Undefined, ""}
              THEN Member(out, "name") ELSE Member(out, "login")]

GwInit ==
    /\ gwPc = "idle"
    /\ gwReq = [method |-> "POST", body |-> "json", command |-> CmdEmpty,
                args |-> <<>>, env |-> <<>>, cwd |-> ""]
    /\ gwSpawned = <<>>
    /\ gwResult = NoResult
    /\ gwResponse = NoResponse

Respond(response) ==
    /\ gwPc' = "responded"
    /\ gwResponse' = response

\* A request arrives and is handled up to its first execSync call.
ExecReceive(req) ==
    /\ gwPc \in {"idle", "responded"}
    /\ gwReq' = req
    /\ gwResult' = NoResult
    /\ IF req.method # "POST"
       THEN Respond(MethodNotAllowed) /\ gwSpawned' = <<>>
       ELSE IF req.body = "unreadable"
       THEN Respond(CaughtResponse) /\ gwSpawned' = <<>>
       ELSE IF ~IsAllowed(req.command)
       THEN Respond(Rejection(req.command, req.args)) /\ gwSpawned' = <<>>
       ELSE /\ gwPc' = "running"
            /\ gwSpawned' = <<Invocation(req.command, req.args, req.env, req.cwd)>>
            /\ gwResponse' = NoResponse

\* The primary invocation ends; the result is post-processed by command.
ExecPrimaryReturns(success, out) ==
    /\ gwPc = "running"
    /\ LET result == RunResult(gwReq.command, gwReq.args, success, out) IN
       IF gwReq.command = CmdVersion
       THEN /\ Respond(Response(200,
                   IF success THEN [result EXCEPT !.version = VersionOf(out)]
                   ELSE result))
            /\ UNCHANGED <<gwSpawned, gwResult>>
       ELSE IF StartsWith(gwReq.command, CmdAuth)
                /\ gwReq.command = CmdAuthStatus /\ success
       THEN /\ gwPc' = "chained"
            /\ gwResult' = result
            /\ gwSpawned' = Append(gwSpawned, Invocation(CmdApi, <<"user">>, gwReq.env, gwReq.cwd))
            /\ UNCHANGED gwResponse
       ELSE /\ Respond(Response(200, result))
            /\ UNCHANGED <<gwSpawned, gwResult>>
    /\ UNCHANGED gwReq

\* Variant: a failed `api user` call fails the outer result.
ChainedFailureSurfaced(result, success, out) ==
    IF success /\ JsonParses(out)
    THEN [result EXCEPT !.user = UserOf(out)]
    ELSE [result EXCEPT !.success = FALSE, !.error = "Command failed"]
\* if (userResult.success) { try { ...; result.user = {...} } catch {} }
WithUser(result, success, out) ==
    IF success /\ JsonParses(out)
    THEN [result EXCEPT !.user = UserOf(out)]
    ELSE result

\* The chained `api user` invocation ends.
ExecChainedReturns(success, out) ==
    /\ gwPc = "chained"
    /\ Respond(Response(200, WithUser(gwResult, success, out)))
    /\ UNCHANGED <<gwReq, gwSpawned, gwResult>>

----------------------------------------------------------------------------
(* The status route: loader and its own executeGitHubCLICommand. *)

\* url.searchParams.get('action') || 'status': logged, and not used further.
ActionParams == {"status", "auth", "user"}

\* One execSync call of the status route: the command it was asked for, and
\* the command line it runs.
\* fullCommand = `"${config.path}" ${args.join(' ')}`
StatusInvocation(command, args) ==
    [asked |-> command, exe |-> ConfigPath, args |-> args, cwd |-> ConfigCwd]

\* The words of the command line execSync is given:
\* fullCommand = `"${config.path}" ${args.join(' ')}`, without the command.
StatusCommandLine(inv) == <<inv.exe>> \o inv.args

\* What executeGitHubCLICommand returns, by how execSync ended.
StatusRunResult(success, out) ==
    [success |-> success,
     output |-> out,
     error |-> IF success THEN NoErrorText ELSE "Command failed"]

NoStatusVersion == <<"(no version)">>
NoStatusUser == [login |-> "(no user)", name |-> "(no user)", email |-> "(no user)"]

CLIStatus(installed, authenticated, version, user, err) ==
    [isInstalled |-> installed, isAuthenticated |-> authenticated,
     version |-> version, user |-> user, error |-> err]
NoStatus == CLIStatus(FALSE, FALSE, NoStatusVersion, NoStatusUser, NoErrorText)

\* Variant: the loader goes on after a failed version check.
VersionCheckIgnored(result) == TRUE
\* if (!checkResult.success) return ...
VersionCheckPassed(result) == result.success

\* Variant: the loader takes any answer of `auth status` as authenticated.
AuthCheckIgnored(result) == TRUE
\* if (authResult.success)
AuthCheckPassed(result) == result.success

\* The catch block of the loader:
\* error: error instanceof Error ? error.message : 'Unknown error'
CaughtMessages == {"Unknown error", "import failed"}
StatusCaught(message) ==
    CLIStatus(FALSE, FALSE, NoStatusVersion, NoStatusUser, message)

\* Variant: a failed version check is reported with the installed flag set.
NotInstalledKeepsFlag(result) ==
    CLIStatus(TRUE, FALSE, NoStatusVersion, NoStatusUser,
              IF result.error \in {NoErrorText, ""} THEN "GitHub CLI not found"
              ELSE result.error)
\* error: checkResult.error || 'GitHub CLI not found'
NotInstalled(result) ==
    CLIStatus(FALSE, FALSE, NoStatusVersion, NoStatusUser,
              IF result.error \in {NoErrorText, ""} THEN "GitHub CLI not found"
              ELSE result.error)

\* Variant: the display name is always the login.
StatusUserLoginOnly(out) ==
    [login |-> Member(out, "login"), name |-> Member(out, "login"),
     email |-> Member(out, "email")]
\* { login: userData.login, name: userData.name || userData.login,
\*   email: userData.email }
StatusUserOf(out) ==
    [login |-> Member(out, "login"),
     name |-> IF Member(out, "name") \notin {Undefined, ""}
              THEN Member(out, "name") ELSE Member(out, "login"),
     email |-> Member(out, "email")]

StInit ==
    /\ stPc = "idle"
    /\ stAction = "status"
    /\ stSpawned = <<>>
    /\ stResults = <<>>
    /\ stStatus = NoStatus

StatusRespond(status) ==
    /\ stPc' = "responded"
    /\ stStatus' = status

\* A request arrives: the version check is run.
StatusReceive(action) ==
    /\ stPc \in {"idle", "responded"}
    /\ stAction' = action
    /\ stPc' = "version"
    /\ stSpawned' = <<StatusInvocation(CmdVersion, <<>>)>>
    /\ stResults' = <<>>
    /\ stStatus' = NoStatus

\* The version check ends: not installed, or on to the auth check.
StatusVersionReturns(success, out) ==
    /\ stPc = "version"
    /\ LET checkResult == StatusRunResult(success, out) IN
       /\ stResults' = Append(stResults, checkResult)
       /\ IF ~VersionCheckPassed(checkResult)
          THEN /\ StatusRespond(NotInstalled(checkResult))
               /\ UNCHANGED stSpawned
          ELSE /\ stPc' = "auth"
               /\ stSpawned' = Append(stSpawned, StatusInvocation(CmdAuth, <<"status">>))
               /\ UNCHANGED stStatus
    /\ UNCHANGED stAction

\* The auth check ends: unauthenticated, or on to the user fetch.
StatusAuthReturns(success, out) ==
    /\ stPc = "auth"
    /\ LET authResult == StatusRunResult(success, out) IN
       /\ stResults' = Append(stResults, authResult)
       /\ IF AuthCheckPassed(authResult)
          THEN /\ stPc' = "user"
               /\ stSpawned' = Append(stSpawned, StatusInvocation(CmdApi, <<"user">>))
               /\ UNCHANGED stStatus
          ELSE /\ StatusRespond(CLIStatus(TRUE, FALSE, stResults[1].output,
                                          NoStatusUser, NoErrorText))
               /\ UNCHANGED stSpawned
    /\ UNCHANGED stAction

\* The user fetch ends: authenticated, with the user when the output parses.
StatusUserReturns(success, out) ==
    /\ stPc = "user"
    /\ stResults' = Append(stResults, StatusRunResult(success, out))
    /\ StatusRespond(CLIStatus(TRUE, TRUE, stResults[1].output,
                               IF success /\ JsonParses(out) THEN StatusUserOf(out)
                               ELSE NoStatusUser,
                               NoErrorText))
    /\ UNCHANGED <<stAction, stSpawned>>

----------------------------------------------------------------------------
Init == StoreInit /\ GwInit /\ StInit /\ RtIdle

\* The store, under any interleaving of its operations.
Next ==
    \/ \E c \in UpdCalls, s \in SettingsInputs :
          UpdateSettingsDropped(c, s) /\ UNCHANGED <<gwVars, stVars, rtVars>>
    \/ \E c \in UpdCalls, s \in SettingsInputs :
          UpdateSettingsStart(c, s) /\ UNCHANGED <<gwVars, stVars, rtVars>>
    \/ \E c \in UpdCalls, r \in FetchOutcomes :
          \E t \in Bodies(r, upd[c].arg.mcpConfig) :
              UpdateSettingsFinish(c, r, t) /\ UNCHANGED <<gwVars, stVars, rtVars>>
    \/ \E c \in IniCalls : InitializeNoop(c) /\ UNCHANGED <<gwVars, stVars, rtVars>>
    \/ \E c \in IniCalls : InitializeNoBrowser(c) /\ UNCHANGED <<gwVars, stVars, rtVars>>
    \/ \E c \in IniCalls : InitializeAbsent(c) /\ UNCHANGED <<gwVars, stVars, rtVars>>
    \/ \E c \in IniCalls : InitializeUnparseable(c) /\ UNCHANGED <<gwVars, stVars, rtVars>>
    \/ \E c \in IniCalls : InitializeLoad(c) /\ UNCHANGED <<gwVars, stVars, rtVars>>
    \/ \E c \in IniCalls, r \in FetchOutcomes :
          \E t \in Bodies(r, ini[c].arg.mcpConfig) :
              InitializeFinish(c, r, t) /\ UNCHANGED <<gwVars, stVars, rtVars>>
    \/ \E c \in ChkCalls : CheckStart(c) /\ UNCHANGED <<gwVars, stVars, rtVars>>
    \/ \E c \in ChkCalls, r \in FetchOutcomes :
          \E t \in AnyBodies(r) : CheckFinish(c, r, t) /\ UNCHANGED <<gwVars, stVars, rtVars>>

Spec == Init /\ [][Next]_vars

\* The exec route, with the store as constructed in a browser.
InitExec ==
    StoreInit /\ isBrowser /\ persisted = NoItem /\ GwInit /\ StInit /\ RtIdle

NextExec ==
    \/ \E req \in Requests : ExecReceive(req) /\ UNCHANGED <<clientVars, stVars, rtVars>>
    \/ \E success \in BOOLEAN, out \in Outputs :
          ExecPrimaryReturns(success, out) /\ UNCHANGED <<clientVars, stVars, rtVars>>
    \/ \E success \in BOOLEAN, out \in Outputs :
          ExecChainedReturns(success, out) /\ UNCHANGED <<clientVars, stVars, rtVars>>

SpecExec == InitExec /\ [][NextExec]_vars

\* The status route, with the store as constructed in a browser.
InitStatus == InitExec

NextStatus ==
    \/ \E action \in ActionParams :
          StatusReceive(action) /\ UNCHANGED <<clientVars, gwVars, rtVars>>
    \/ \E success \in BOOLEAN, out \in Outputs :
          StatusVersionReturns(success, out) /\ UNCHANGED <<clientVars, gwVars, rtVars>>
    \/ \E success \in BOOLEAN, out \in Outputs :
          StatusAuthReturns(success, out) /\ UNCHANGED <<clientVars, gwVars, rtVars>>
    \/ \E success \in BOOLEAN, out \in Outputs :
          StatusUserReturns(success, out) /\ UNCHANGED <<clientVars, gwVars, rtVars>>

SpecStatus == InitStatus /\ [][NextStatus]_vars

\* The persisted record, written and read back.
InitRoundTrip ==
    StoreInit /\ isBrowser /\ persisted = NoItem /\ GwInit /\ StInit /\ RtInit

NextRoundTrip ==
    \/ RtWrite /\ UNCHANGED <<clientVars, gwVars, stVars>>
    \/ RtRead /\ UNCHANGED <<clientVars, gwVars, stVars>>

SpecRoundTrip == InitRoundTrip /\ [][NextRoundTrip]_vars

----------------------------------------------------------------------------
(* The store's claims *)

IsUpdateReturn(r) == r.op = "updateSettings"
Awaiting(calls) == {c \in DOMAIN calls : calls[c].pc = "awaiting"}
SameCalls(before, after) ==
    \A c \in DOMAIN before :
        after[c].pc = before[c].pc /\ after[c].arg = before[c].arg

\* C3: an updateSettings call made while another is pending is dropped, not
\* queued: its step changes no store field, no persisted state and no pending
\* call, no second call gets past the guard while one is pending, and the
\* pending call ends as it would have alone (on success the store holds its
\* settings, its tools and its record; on failure its last step changes
\* nothing but the flag).
C3_DroppedNotQueued ==
    /\ [](IsUpdateReturn(ret) /\ ret.outcome = "resolved" /\ ret.sawDrop
            => /\ settings = ret.arg
               /\ serverTools = ret.tools
               /\ (isBrowser => persisted = Stringify(ret.arg))
               /\ ~isUpdatingConfig
               /\ Awaiting(upd) = {})
    /\ [][ /\ (IsUpdateReturn(ret') /\ ret'.outcome = "dropped")
                => /\ UNCHANGED <<persisted, storeVars, ini, chk>>
                   /\ SameCalls(upd, upd')
           /\ (IsUpdateReturn(ret') /\ ret'.outcome = "rejected" /\ ret'.sawDrop)
                => UNCHANGED <<persisted, settings, serverTools, error>>
           /\ \A c, d \in UpdCalls :
                (c # d /\ upd[c].pc = "awaiting")
                    => ~(upd[d].pc = "idle" /\ upd'[d].pc = "awaiting") ]_vars

\* C3 witness: a call has succeeded after another call was dropped during it.
C3_Witness ==
    /\ IsUpdateReturn(ret) /\ ret.outcome = "resolved" /\ ret.sawDrop
    /\ ret.arg = settingsB /\ settings = settingsB

\* C4: at most one updateSettings call is past the guard, and the flag is
\* set exactly while there is one.
C4_SingleFlight ==
    /\ Cardinality(Awaiting(upd)) <= 1
    /\ isUpdatingConfig <=> Awaiting(upd) # {}

\* C4 witness: a call is past the guard and a later call was turned away.
C4_Witness ==
    /\ Cardinality(Awaiting(upd)) = 1
    /\ isUpdatingConfig
    /\ IsUpdateReturn(ret) /\ ret.outcome = "dropped"

\* C5: when the discovery request of an updateSettings call fails, the call
\* rejects, and neither its first step nor its last changes the settings, the
\* server tools or the persisted record.
C5_FailureLeavesSettings ==
    /\ [](IsUpdateReturn(ret) /\ Failed(ret.resp) => ret.outcome = "rejected")
    /\ [][ /\ (IsUpdateReturn(ret') /\ Failed(ret'.resp))
                => UNCHANGED <<settings, serverTools, persisted>>
           /\ (\E c \in UpdCalls : upd[c].pc = "idle" /\ upd'[c].pc = "awaiting")
                => UNCHANGED <<settings, serverTools, persisted>> ]_vars

\* C5 witness: a call with settings other than the store's has been rejected.
C5_Witness ==
    /\ IsUpdateReturn(ret) /\ Failed(ret.resp) /\ ret.outcome = "rejected"
    /\ ret.arg # settings
    /\ persisted # Stringify(ret.arg)

\* C6 as stated: when an updateSettings call returns after a successful
\* discovery response, the store holds its settings and the tools of the
\* response, and the persisted record is the serialization of its settings.
C6_Original ==
    (IsUpdateReturn(ret) /\ ret.resp = "ok")
        => /\ settings = ret.arg
           /\ serverTools = ret.tools
           /\ persisted = Stringify(ret.arg)

\* C6 amended: the same, the persisted record being written only in a browser;
\* outside one there is no record.  Persisting and adopting
\* belong to one synchronous segment (mcp.ts:123-127), one step here.
C6_SuccessPersistsAndAdopts ==
    (IsUpdateReturn(ret) /\ ret.resp = "ok")
        => /\ ret.outcome = "resolved"
           /\ settings = ret.arg
           /\ serverTools = ret.tools
           /\ persisted = IF isBrowser THEN Stringify(ret.arg) ELSE NoItem

\* C6 witness: in a browser, a call has succeeded and its record is written.
C6_Witness ==
    /\ isBrowser
    /\ IsUpdateReturn(ret) /\ ret.resp = "ok"
    /\ ret.arg = settingsB
    /\ persisted = Stringify(settingsB)
    /\ serverTools \in DiscoveryResults({"github-cli"})

\* C7 as stated: whenever an updateSettings call returns, by success, failure
\* or the early return of the guard, isUpdatingConfig is false.
C7_Original == IsUpdateReturn(ret) => ~isUpdatingConfig

\* C7 amended: isUpdatingConfig is false when a call that passed the guard
\* returns, by success or by failure; the early return of the guard leaves
\* the flag set, for the call that is still pending.
C7_FlagClearedByHolder ==
    /\ (IsUpdateReturn(ret) /\ ret.outcome \in {"resolved", "rejected"})
            => ~isUpdatingConfig
    /\ (IsUpdateReturn(ret) /\ ret.outcome = "dropped") => isUpdatingConfig

\* C7 witness: a call has been rejected and the flag is down.
C7_Witness ==
    IsUpdateReturn(ret) /\ ret.outcome = "rejected" /\ ~isUpdatingConfig

\* C8: a call of initialize on an initialized store is a no-op: it changes
\* no store field, no persisted state and no pending call, and once the store
\* is initialized the load path is not entered again and no discovery
\* request is issued by initialize.
C8_SecondInitializeNoOp ==
    [][ isInitialized
          => /\ loads' = loads
             /\ \A c \in IniCalls : ~(ini[c].pc = "idle" /\ ini'[c].pc = "awaiting")
             /\ (ret'.op = "initialize" /\ ini' = ini)
                  => /\ ret'.path = "noop"
                     /\ UNCHANGED <<persisted, storeVars, upd, chk>> ]_vars

\* C8 witness: a second call has returned after the load path ran once.
C8_Witness ==
    /\ ret.op = "initialize" /\ ret.path = "noop"
    /\ isInitialized /\ loads = 1

\* C9: every initialize call that returns leaves isInitialized true, on
\* every path, and isInitialized never goes back to false.
C9_AlwaysInitialized ==
    /\ [](ret.op = "initialize" => isInitialized)
    /\ [][isInitialized => isInitialized']_vars

\* C9 witness: initialize has returned after its discovery request failed.
C9_Witness ==
    ret.op = "initialize" /\ ret.path = "loaded" /\ Failed(ret.resp) /\ isInitialized

\* C10: when initialize found a persisted record that parses, the store's
\* settings equal that record once initialize has returned.
C10_AdoptsPersisted ==
    (ret.op = "initialize" /\ ret.path = "loaded") => settings = ret.arg

\* A step in which an initialize call that passed the guard ran to its return
\* at once, without awaiting anything.
InitializeRanThrough == ret'.op = "initialize" /\ ret'.path # "noop" /\ ini' = ini

\* What C11 says of such a step: the call resolves, an error is recorded, the
\* settings, the server tools and the record stay, no request is pending.
KeepsDefaultsOnCorruptRecord ==
    /\ ret'.outcome = "resolved"
    /\ error' # NoError
    /\ UNCHANGED <<settings, serverTools, persisted>>
    /\ settings = defaultSettings => settings' = defaultSettings
    /\ serverTools = NoTools => serverTools' = NoTools
    /\ Awaiting(ini') = {}

\* C11 as stated: when the persisted record is present (getItem returns a
\* string) but does not parse, initialize resolves, records an error, keeps
\* the settings and the server tools, issues no discovery request and does
\* not overwrite the record.
C11_Original ==
    [][ (InitializeRanThrough /\ isBrowser /\ persisted # NoItem /\ ~Parses(persisted))
            => KeepsDefaultsOnCorruptRecord ]_vars

\* C11 amended: the same for a record that is a non-empty string; the empty
\* string is falsy at `if (savedConfig)` and is overwritten with the defaults
\* like an absent record.
C11_CorruptRecordKeepsDefaults ==
    /\ [][ (InitializeRanThrough /\ isBrowser /\ Truthy(persisted) /\ ~Parses(persisted))
              => KeepsDefaultsOnCorruptRecord ]_vars
    /\ [][ (InitializeRanThrough /\ isBrowser /\ persisted = EmptyText)
              => persisted' = Stringify(defaultSettings) /\ error' = error ]_vars

\* C11 witness: initialize has returned over a record that does not parse.
C11_Witness ==
    /\ ret.op = "initialize" /\ ret.path = "unparseable" /\ ret.outcome = "resolved"
    /\ persisted = GarbageText
    /\ error # NoError
    /\ settings = defaultSettings /\ serverTools = NoTools


IsCheckReturn(r) == r.op = "checkServersAvailabilities"

\* C12: no step of checkServersAvailabilities changes the settings, the
\* persisted record, isInitialized, isUpdatingConfig or error; its first step
\* changes nothing of the store, a successful response replaces serverTools
\* by the response, and a failed request rejects and leaves serverTools.
C12_CheckTouchesOnlyTools ==
    /\ [](IsCheckReturn(ret) => ret.outcome = IF Failed(ret.resp) THEN "rejected"
                                              ELSE "resolved")
    /\ [][ /\ (chk' # chk)
                => UNCHANGED <<settings, persisted, isInitialized,
                               isUpdatingConfig, error, upd, ini>>
           /\ (chk' # chk /\ ~IsCheckReturn(ret')) => UNCHANGED serverTools
           /\ (IsCheckReturn(ret') /\ ret'.resp = "ok") => serverTools' = ret'.tools
           /\ (IsCheckReturn(ret') /\ Failed(ret'.resp)) => UNCHANGED serverTools ]_vars

\* C12 witness: a check has been rejected while the store holds tools.
C12_Witness ==
    /\ IsCheckReturn(ret) /\ Failed(ret.resp) /\ ret.outcome = "rejected"
    /\ serverTools # NoTools
    /\ settings # defaultSettings


\* C13: a discovery request that fails (a rejected fetch or a non-OK status)
\* rejects the operation that issued it, initialize included, and the error
\* field then holds nothing this failure put there.
C13_TransportFailureRejects ==
    (ret.op \in {"initialize", "updateSettings", "checkServersAvailabilities"}
     /\ Failed(ret.resp))
        => /\ ret.outcome = "rejected"
           /\ error # ParseErrorText(CauseOf(ret.resp))


QuietAfter ==
    /\ \A c \in UpdCalls : upd'[c].pc = "idle"
    /\ \A c \in IniCalls : ini'[c].pc = "idle"
    /\ \A c \in ChkCalls : chk'[c].pc = "idle"

\* C24: when updateSettings and checkServersAvailabilities interleave, the
\* response of a check that describes the configuration the store held when
\* the check was issued never leaves serverTools, once nothing is in flight,
\* describing a configuration other than the one the store has adopted.
C24_StaleCheckNeverWins ==
    [][ \A c \in ChkCalls :
            (/\ chk[c].pc = "awaiting" /\ chk'[c].pc = "idle"
             /\ ret'.op = "checkServersAvailabilities"
             /\ ret'.outcome = "resolved"
             /\ ret'.tools \in DiscoveryResults(chk[c].config)
             /\ QuietAfter)
                => serverTools' \in DiscoveryResults(settings'.mcpConfig) ]_vars

----------------------------------------------------------------------------
(* The exec route's claims *)

\* A POST request whose body holds a command.
WellFormed(req) == req.method = "POST" /\ req.body = "json"

\* The first whitespace-delimited token of a command.
FirstToken(s) ==
    LET blanks == {i \in 1..Len(s) : s[i] = " "} IN
    IF blanks = {} THEN s
    ELSE SubSeq(s, 1, (CHOOSE i \in blanks : \A k \in blanks : i <= k) - 1)

\* C1: a POST request whose command, lower-cased, starts with no verb of the
\* allowlist is answered with success=false, empty output and the rejection
\* error, and no process is spawned at any point of its handling.
C1_RejectedNeverSpawns ==
    (/\ gwPc # "idle"
     /\ WellFormed(gwReq)
     /\ \A verb \in allowedCommands : ~StartsWith(ToLowerCase(gwReq.command), verb))
        => /\ gwSpawned = <<>>
           /\ gwPc = "responded"
           /\ gwResponse.status = 200
           /\ gwResponse.body.success = FALSE
           /\ gwResponse.body.output = <<>>
           /\ gwResponse.body.error = "is not allowed for security reasons"
           /\ gwResponse.body.command = Echo(gwReq.command, gwReq.args)

\* C1 witness: the request `rm status` has been rejected.
C1_Witness ==
    /\ gwPc = "responded"
    /\ WellFormed(gwReq)
    /\ gwReq.command = CmdRm /\ gwReq.args = <<"status">>
    /\ gwResponse = Rejection(CmdRm, <<"status">>)
    /\ gwSpawned = <<>>

\* C2: a POST request whose command verb (the first whitespace-delimited
\* token of the command, lower-cased) is not a member of the allowlist is
\* rejected, and no process is spawned for it.
C2_VerbIsMember ==
    (/\ gwPc # "idle"
     /\ WellFormed(gwReq)
     /\ FirstToken(ToLowerCase(gwReq.command)) \notin allowedCommands)
        => /\ gwSpawned = <<>>
           /\ gwPc = "responded"
           /\ gwResponse.body.success = FALSE

\* An `auth status` request, in either of the forms it is sent in.
IsAuthStatus(req) ==
    \/ req.command = CmdAuthStatus
    \/ req.command = CmdAuth /\ req.args = <<"status">>

\* C17: an `auth status` request (as one command, or as command auth with
\* argument status) whose primary call succeeded is followed by exactly one
\* `api user` invocation with the same environment overrides and working
\* directory before it is answered; any other request, and one whose primary
\* call failed, spawns no `api user` invocation of the route's own.
C17_AuthStatusChains ==
    (gwPc = "responded" /\ WellFormed(gwReq) /\ IsAllowed(gwReq.command))
        => LET primary == Invocation(gwReq.command, gwReq.args, gwReq.env, gwReq.cwd)
               chained == Invocation(CmdApi, <<"user">>, gwReq.env, gwReq.cwd)
           IN  IF IsAuthStatus(gwReq) /\ gwResponse.body.success
               THEN gwSpawned = <<primary, chained>>
               ELSE gwSpawned = <<primary>>

\* C18: whatever the chained `api user` call does, the answer to the outer
\* `auth status` request has the primary call's success, command, output and
\* error; only the user may be added.
C18_ChainedOutcomeOnlyAddsUser ==
    (gwPc = "responded" /\ Len(gwSpawned) = 2)
        => /\ gwResponse.status = 200
           /\ gwResponse.body.success = TRUE
           /\ gwResponse.body.command = Echo(gwReq.command, gwReq.args)
           /\ gwResponse.body.error = NoErrorText
           /\ [gwResponse.body EXCEPT !.user = NoUser] = gwResult

\* C18 witness: the chained call failed or printed no JSON, and the outer
\* answer is a success without a user.
C18_Witness ==
    /\ gwPc = "responded" /\ Len(gwSpawned) = 2
    /\ gwResponse.body.user = NoUser
    /\ gwResponse.body.success
    /\ gwResponse.body.output = OutPlain

\* The word after the first `gh version` of an output that has one.
HasVersionToken(out) ==
    \E i \in 1..Len(out) - 2 : out[i] = "gh" /\ out[i + 1] = "version"
IsVersionToken(out, word) ==
    \E i \in 1..Len(out) - 2 :
        /\ out[i] = "gh" /\ out[i + 1] = "version" /\ out[i + 2] = word
        /\ \A k \in 1..i - 1 : ~(out[k] = "gh" /\ out[k + 1] = "version")

\* C19: the answer to a `version` request carries a version exactly when the
\* call succeeded and printed `gh version <token>`, the version being that
\* token; success, output and error are as the call returned them.
C19_VersionExtracted ==
    (gwPc = "responded" /\ WellFormed(gwReq) /\ gwReq.command = CmdVersion)
        => LET body == gwResponse.body IN
           /\ gwResponse.status = 200
           /\ gwSpawned = <<Invocation(CmdVersion, gwReq.args, gwReq.env, gwReq.cwd)>>
           /\ (body.version # NoVersion)
                 <=> (body.success /\ HasVersionToken(body.output))
           /\ body.version # NoVersion => IsVersionToken(body.output, body.version)
           /\ body.output = OutVersion /\ body.success => body.version = "2.40.0"
           /\ [body EXCEPT !.version = NoVersion]
                 = RunResult(CmdVersion, gwReq.args, body.success, body.output)

\* C19 witness: `gh version 2.40.0 (2023-01-01)` was printed.
C19_Witness ==
    /\ gwPc = "responded" /\ WellFormed(gwReq) /\ gwReq.command = CmdVersion
    /\ gwResponse.body.success
    /\ gwResponse.body.output = OutVersion
    /\ gwResponse.body.version = "2.40.0"

\* The request was handled without an exception.
IsBusinessOutcome == WellFormed(gwReq)

\* C20 as stated: a structured outcome (rejection, process failure, success)
\* is answered with status 200, and a request that is not a POST or whose
\* handling threw (an unreadable body) with another status.
C20_Original ==
    gwPc = "responded"
        => (gwResponse.status = 200 <=> IsBusinessOutcome)

\* C20 amended: the status is 405 for a request that is not a POST and 200
\* for every other one, an exception in the handling included, which is
\* answered with success=false, an empty command and output, and the error.
C20_OnlyMethodChangesStatus ==
    gwPc = "responded"
        => /\ gwResponse.status = (IF gwReq.method = "POST" THEN 200 ELSE 405)
           /\ (gwReq.method = "POST" /\ gwReq.body = "unreadable")
                 => /\ gwResponse.body.success = FALSE
                    /\ gwResponse.body.command = Echo(<<>>, <<>>)
                    /\ gwResponse.body.output = <<>>
                    /\ gwResponse.body.error = "Unexpected error"
                    /\ gwSpawned = <<>>

\* C20 witness: a POST with an unreadable body has been answered.
C20_Witness ==
    /\ gwPc = "responded"
    /\ gwReq.method = "POST" /\ gwReq.body = "unreadable"
    /\ gwResponse.status = 200
    /\ ~gwResponse.body.success

----------------------------------------------------------------------------
(* The status route's claims *)

Asked(spawned) == [i \in 1..Len(spawned) |-> spawned[i].asked]

\* C14: the version check is the first invocation of a status request; when
\* it fails the status is NotInstalled with the failure text as its error,
\* and neither the auth check nor the user fetch is invoked.
C14_NotInstalledStopsThere ==
    /\ stSpawned # <<>> => stSpawned[1].asked = CmdVersion
    /\ (stResults # <<>> /\ ~stResults[1].success)
          => /\ stPc = "responded"
             /\ stStatus.isInstalled = FALSE
             /\ stStatus.isAuthenticated = FALSE
             /\ stStatus.error = stResults[1].error
             /\ stStatus.error # NoErrorText
             /\ stStatus.version = NoStatusVersion
             /\ stStatus.user = NoStatusUser
             /\ Asked(stSpawned) = <<CmdVersion>>

\* C14 witness: a status request has ended at a failed version check.
C14_Witness ==
    /\ stPc = "responded"
    /\ Len(stResults) = 1 /\ ~stResults[1].success
    /\ stStatus.error = "Command failed"

\* C15: when the version check succeeds and the auth check fails, the status
\* is installed, not authenticated, with the version and without a user or
\* an error, and the user fetch is not invoked.
C15_UnauthenticatedHasNoUser ==
    (Len(stResults) >= 2 /\ stResults[1].success /\ ~stResults[2].success)
        => /\ stPc = "responded"
           /\ stStatus = CLIStatus(TRUE, FALSE, stResults[1].output,
                                   NoStatusUser, NoErrorText)
           /\ Asked(stSpawned) = <<CmdVersion, CmdAuth>>
           /\ stSpawned[2].args = <<"status">>

\* C15 witness: a status request has ended at a failed auth check.
C15_Witness ==
    /\ stPc = "responded"
    /\ Len(stResults) = 2 /\ stResults[1].success /\ ~stResults[2].success
    /\ stStatus.version = OutVersion
    /\ ~stStatus.isAuthenticated

\* The status of a request both of whose checks succeeded, but for the name.
AuthenticatedButName ==
    /\ stStatus.isInstalled /\ stStatus.isAuthenticated
    /\ stStatus.version = stResults[1].output
    /\ stStatus.error = NoErrorText
    /\ Len(stResults) = 3
    /\ Asked(stSpawned) = <<CmdVersion, CmdAuth, CmdApi>>
    /\ (stStatus.user # NoStatusUser)
          <=> (stResults[3].success /\ JsonParses(stResults[3].output))
    /\ stStatus.user # NoStatusUser
          => stStatus.user.login = Member(stResults[3].output, "login")

BothChecksPassed ==
    stPc = "responded" /\ Len(stResults) >= 2
        /\ stResults[1].success /\ stResults[2].success

\* C16 as stated: when both checks succeed the status is authenticated, with
\* the version and no error; the user is present exactly when the user fetch
\* succeeded and its output parsed, with the record's login and, as display
\* name, the record's name.
C16_Original ==
    BothChecksPassed
        => /\ AuthenticatedButName
           /\ stStatus.user # NoStatusUser
                => stStatus.user.name = Member(stResults[3].output, "name")

\* C16 amended: the same, the display name being the record's name when it
\* has a non-empty one and the record's login otherwise.
C16_AuthenticatedIdentity ==
    BothChecksPassed
        => /\ AuthenticatedButName
           /\ stStatus.user # NoStatusUser
                => stStatus.user.name =
                      IF Member(stResults[3].output, "name") \in {Undefined, ""}
                      THEN Member(stResults[3].output, "login")
                      ELSE Member(stResults[3].output, "name")

\* C16 witness: the user fetch returned {"login":"alice","name":"Alice A"}.
C16_Witness ==
    /\ BothChecksPassed
    /\ stResults[3].output = OutUser /\ stResults[3].success
    /\ stStatus.user.login = "alice" /\ stStatus.user.name = "Alice A"

\* C22: every process either route spawns is run with a command line made of
\* the executable, then the verb that was asked for, then the arguments in
\* their order.
C22_CommandLineCarriesVerb ==
    /\ \A i \in 1..Len(gwSpawned) :
          LET line == CommandLine(gwSpawned[i]) IN
          /\ Len(line) = 2 + Len(gwSpawned[i].args)
          /\ line[1] = ConfigPath
          /\ line[2] = (IF i = 1 THEN gwReq.command ELSE CmdApi)
          /\ SubSeq(line, 3, Len(line)) = gwSpawned[i].args
    /\ \A i \in 1..Len(stSpawned) :
          LET line == StatusCommandLine(stSpawned[i]) IN
          /\ Len(line) = 2 + Len(stSpawned[i].args)
          /\ line[1] = ConfigPath
          /\ line[2] = stSpawned[i].asked
          /\ SubSeq(line, 3, Len(line)) = stSpawned[i].args

\* What the exec route answers to `version` and to `auth status` when the
\* program behaves as it did for the status route's calls.
GatewayVersion ==
    LET result == RunResult(CmdVersion, <<>>, stResults[1].success, stResults[1].output)
    IN  IF result.success THEN [result EXCEPT !.version = VersionOf(result.output)]
        ELSE result
GatewayAuthStatus ==
    LET result == RunResult(CmdAuthStatus, <<>>, stResults[2].success, stResults[2].output)
    IN  IF result.success /\ Len(stResults) = 3
        THEN WithUser(result, stResults[3].success, stResults[3].output)
        ELSE result
GatewayCommandLines ==
    <<CommandLine(Invocation(CmdVersion, <<>>, <<>>, "")),
      CommandLine(Invocation(CmdAuthStatus, <<>>, <<>>, "")),
      CommandLine(Invocation(CmdApi, <<"user">>, <<>>, ""))>>

\* C23: the status route returns what the exec route's `version` and
\* `auth status` answers hold (isInstalled and isAuthenticated their success,
\* version the version token, user the user attached), and it runs the same
\* command lines.
C23_StatusComposesGateway ==
    stPc = "responded"
        => /\ stStatus.isInstalled = GatewayVersion.success
           /\ stStatus.version = <<GatewayVersion.version>>
           /\ Len(stResults) >= 2
                => /\ stStatus.isAuthenticated = GatewayAuthStatus.success
                   /\ (stStatus.user = NoStatusUser)
                         <=> (GatewayAuthStatus.user = NoUser)
                   /\ stStatus.user # NoStatusUser
                         => /\ stStatus.user.login = GatewayAuthStatus.user.login
                            /\ stStatus.user.name = GatewayAuthStatus.user.name
           /\ \A i \in 1..Len(stSpawned) :
                 StatusCommandLine(stSpawned[i]) = GatewayCommandLines[i]

\* The four implications that hold of a consistent status.
ConsistentStatus(s) ==
    /\ s.isAuthenticated => s.isInstalled
    /\ s.user # NoStatusUser => s.isAuthenticated
    /\ s.error # NoErrorText => ~s.isInstalled
    /\ s.isInstalled => (s.version # NoStatusVersion /\ s.error = NoErrorText)

\* C25: every status the loader returns, the one of its catch block
\* included, is consistent: authenticated implies installed, a user implies
\* authenticated, an error implies not installed, and installed implies a
\* version and no error.
C25_StatusIsConsistent ==
    /\ stPc = "responded" => ConsistentStatus(stStatus)
    /\ \A message \in CaughtMessages : ConsistentStatus(StatusCaught(message))

\* C25 witness: the status of an installed, authenticated program with the
\* user bob has been returned.
C25_Witness ==
    /\ stPc = "responded"
    /\ stStatus.isInstalled /\ stStatus.isAuthenticated
    /\ stStatus.version = OutVersion
    /\ stStatus.user # NoStatusUser /\ stStatus.user.login = "bob"
    /\ stStatus.error = NoErrorText

\* C26: a user carried by an answer of the exec route or by a status has a
\* login that is defined and not empty; output of `api user` that parses but
\* holds no login gives no user.
C26_UserHasLogin ==
    /\ (gwPc = "responded" /\ gwResponse.body.user # NoUser)
          => gwResponse.body.user.login \notin {Undefined, ""}
    /\ (stPc = "responded" /\ stStatus.user # NoStatusUser)
          => stStatus.user.login \notin {Undefined, ""}

====
